---- MODULE Spec2Model ----
(***************************************************************************)
(* Model of src/neuroglancer/widget/scale_bar.ts: the scale bar quantizer  *)
(* (ScaleBarDimensions), the unit table (pickLengthUnit) and the texture   *)
(* cache (ScaleBarTexture).                                                *)
(*                                                                         *)
(* A JavaScript number is modelled as a record [k, m, e]:                  *)
(*   k = "num"        the finite decimal m * 10^e, kept canonical (m has   *)
(*                    no trailing zero, zero is m = 0, e = 0), so that     *)
(*                    record equality is === on finite numbers;            *)
(*   k = "NaN", k = "-Infinity", k = "undefined"  the special values.      *)
(* Arithmetic on the finite values is exact decimal arithmetic.            *)
(***************************************************************************)
EXTENDS Integers, Sequences, FiniteSets, TLC

VARIABLES
    \* ScaleBarDimensions
    targetLengthInPixels, nanometersPerPixel,
    lengthInPixels, physicalLength, physicalUnit,
    prevNanometersPerPixel, prevTargetLengthInPixels,
    \* ScaleBarTexture
    texture, width, height, wasDisposed,
    \* the graphics context: the image held by each handle created so far (handle h is
    \* glImage[h]), and the arguments of the deleteTexture calls
    glImage, glDeleted,
    \* observation of the last call: which, what the quantizer returned, how it ended,
    \* the collaborator calls it made, and the inputs the quantizer last saw
    lastCall, changed, outcome, glCalls, seenInputs,
    \* pickLengthUnit applied on its own
    pickInput, pickResult

dimVars == <<targetLengthInPixels, nanometersPerPixel, lengthInPixels, physicalLength,
             physicalUnit, prevNanometersPerPixel, prevTargetLengthInPixels>>
texVars == <<texture, width, height, wasDisposed>>
glVars == <<glImage, glDeleted>>
obsVars == <<lastCall, changed, outcome, glCalls, seenInputs>>
pickVars == <<pickInput, pickResult>>
vars == <<dimVars, texVars, glVars, obsVars, pickVars>>

-----------------------------------------------------------------------------
(* JavaScript numbers *)

RECURSIVE Pow10(_)
Pow10(n) == IF n <= 0 THEN 1 ELSE 10 * Pow10(n - 1)

RECURSIVE FloorLog10(_)
\* floor(log10(x)) of an integer x >= 1
FloorLog10(x) == IF x < 10 THEN 0 ELSE 1 + FloorLog10(x \div 10)

RECURSIVE Num(_, _)
\* the canonical finite number m * 10^e
Num(m, e) ==
    IF m = 0 THEN [k |-> "num", m |-> 0, e |-> 0]
    ELSE IF m % 10 = 0 THEN Num(m \div 10, e + 1)
    ELSE [k |-> "num", m |-> m, e |-> e]

NaN == [k |-> "NaN", m |-> 0, e |-> 0]
NegInfinity == [k |-> "-Infinity", m |-> 0, e |-> 0]
Undefined == [k |-> "undefined", m |-> 0, e |-> 0]
Zero == Num(0, 0)

IsNum(x) == x.k = "num"
Min2(a, b) == IF a <= b THEN a ELSE b
\* the mantissa of finite x at the exponent e <= x.e
MantAt(x, e) == x.m * Pow10(x.e - e)
\* the order of magnitude of a finite x > 0
Magnitude(x) == FloorLog10(x.m) + x.e

Mul(a, b) ==
    IF IsNum(a) /\ IsNum(b) THEN Num(a.m * b.m, a.e + b.e) ELSE NaN

Add(a, b) ==
    IF IsNum(a) /\ IsNum(b)
    THEN LET e == Min2(a.e, b.e) IN Num(MantAt(a, e) + MantAt(b, e), e)
    ELSE NaN

Sub(a, b) ==
    IF IsNum(a) /\ IsNum(b)
    THEN LET e == Min2(a.e, b.e) IN Num(MantAt(a, e) - MantAt(b, e), e)
    ELSE NaN

Abs(a) == IF IsNum(a) THEN Num(IF a.m < 0 THEN -a.m ELSE a.m, a.e) ELSE NaN

\* a < b; every comparison with a non-number is false
Lt(a, b) ==
    /\ IsNum(a) /\ IsNum(b)
    /\ CASE a.m <= 0 /\ b.m > 0 -> a.m < b.m
         [] a.m > 0 /\ b.m <= 0 -> FALSE
         [] a.m <= 0 /\ b.m <= 0 -> Sub(a, b).m < 0
         [] OTHER -> IF Magnitude(a) # Magnitude(b)
                     THEN Magnitude(a) < Magnitude(b)
                     ELSE Sub(a, b).m < 0

\* a >= b
Geq(a, b) == IsNum(a) /\ IsNum(b) /\ ~Lt(a, b)

\* a / b for b a power of ten, zero or NaN (the divisors of update())
Div(a, b) ==
    CASE ~(IsNum(a) /\ IsNum(b)) -> NaN
      [] IsNum(a) /\ IsNum(b) /\ b.m = 0 /\ a.m = 0 -> NaN
      [] IsNum(a) /\ IsNum(b) /\ b.m = 1 -> Num(a.m, a.e - b.e)

\* Math.round(a / b): the nearest integer, a tie going up
RoundDiv(a, b) ==
    CASE ~(IsNum(a) /\ IsNum(b)) -> NaN
      [] IsNum(a) /\ IsNum(b) /\ b.m = 0 /\ a.m = 0 -> NaN
      [] IsNum(a) /\ IsNum(b) /\ b.m # 0 ->
           LET e == Min2(a.e, b.e)
               s == IF b.m < 0 THEN -1 ELSE 1
               p == s * MantAt(a, e)
               q == s * MantAt(b, e)
           IN Num((2 * p + q) \div (2 * q), 0)

\* Math.max(a, b)
Max(a, b) ==
    IF IsNum(a) /\ IsNum(b) THEN (IF Lt(a, b) THEN b ELSE a) ELSE NaN

\* the integer a finite integral number stands for
IntVal(x) == x.m * Pow10(x.e)

-----------------------------------------------------------------------------
(* Unit table and unit selection *)

DEFAULT_ALLOWED_SIGNIFICANDS ==
    <<Num(15, -1), Num(2, 0), Num(3, 0), Num(5, 0), Num(75, -1), Num(10, 0)>>

ALLOWED_UNITS ==
    << [unit |-> "km", lengthInNanometers |-> Num(1, 12)],
       [unit |-> "m",  lengthInNanometers |-> Num(1, 9)],
       [unit |-> "mm", lengthInNanometers |-> Num(1, 6)],
       [unit |-> "um", lengthInNanometers |-> Num(1, 3)],
       [unit |-> "nm", lengthInNanometers |-> Num(1, 0)],
       [unit |-> "pm", lengthInNanometers |-> Num(1, -3)] >>

RECURSIVE pickLoop_strict(_, _)
\* pickLoop comparing with > instead of >=
pickLoop_strict(lengthInNanometers, i) ==
    IF i > Len(ALLOWED_UNITS) THEN ALLOWED_UNITS[Len(ALLOWED_UNITS)]
    ELSE IF Lt(ALLOWED_UNITS[i].lengthInNanometers, lengthInNanometers)
         THEN ALLOWED_UNITS[i]
         ELSE pickLoop_strict(lengthInNanometers, i + 1)

RECURSIVE pickLoop(_, _)
\* the for loop of pickLengthUnit from index i on
pickLoop(lengthInNanometers, i) ==
    IF i > Len(ALLOWED_UNITS) THEN ALLOWED_UNITS[Len(ALLOWED_UNITS)]
    ELSE IF Geq(lengthInNanometers, ALLOWED_UNITS[i].lengthInNanometers)
         THEN ALLOWED_UNITS[i]
         ELSE pickLoop(lengthInNanometers, i + 1)

pickLengthUnit(lengthInNanometers) == pickLoop(lengthInNanometers, 1)

-----------------------------------------------------------------------------
(* ScaleBarDimensions.update() *)

allowedSignificands == DEFAULT_ALLOWED_SIGNIFICANDS

\* InputsUnchanged forgetting the target length
InputsUnchanged_pixelSizeOnly ==
    prevNanometersPerPixel = nanometersPerPixel

\* the early return's condition
InputsUnchanged ==
    /\ prevNanometersPerPixel = nanometersPerPixel
    /\ prevTargetLengthInPixels = targetLengthInPixels

TargetNanometers(t, n) == Mul(t, n)

\* Math.floor(Math.log(targetNanometers) / Math.LN10).  The logarithm of zero is
\* -Infinity and that of a negative number NaN.  At an exact power of ten the
\* quotient of the two rounded logarithms may fall just below the integer (for 1000
\* it is 2.9999999999999996), so the floor is the exponent or one less.
ExponentOutcomes(targetNanometers) ==
    CASE ~IsNum(targetNanometers) -> {NaN}
      [] IsNum(targetNanometers) /\ targetNanometers.m < 0 -> {NaN}
      [] IsNum(targetNanometers) /\ targetNanometers.m = 0 -> {NegInfinity}
      [] OTHER ->
           {Num(Magnitude(targetNanometers), 0)} \cup
           (IF targetNanometers.m = 1
            THEN {Num(Magnitude(targetNanometers) - 1, 0)} ELSE {})

\* Math.pow(10, exponent)
TenToThePowerExponent(exponent) ==
    CASE exponent.k = "num" -> Num(1, IntVal(exponent))
      [] exponent.k = "-Infinity" -> Zero
      [] OTHER -> NaN

RECURSIVE ScanSignificands(_, _, _)
\* the for loop over allowedSignificands from index i on, with its break
ScanSignificands(bestSignificand, targetSignificand, i) ==
    IF i > Len(allowedSignificands) THEN bestSignificand
    ELSE IF Lt(Abs(Sub(allowedSignificands[i], targetSignificand)),
               Abs(Sub(bestSignificand, targetSignificand)))
         THEN ScanSignificands(allowedSignificands[i], targetSignificand, i + 1)
         ELSE bestSignificand

\* BestSignificand without the implicit member 1
BestSignificand_withoutOne(targetSignificand) ==
    ScanSignificands(allowedSignificands[1], targetSignificand, 2)

BestSignificand(targetSignificand) ==
    ScanSignificands(Num(1, 0), targetSignificand, 1)

PhysicalNanometers(t, n, exponent) ==
    LET targetNanometers == TargetNanometers(t, n)
        tenToThePowerExponent == TenToThePowerExponent(exponent)
        targetSignificand == Div(targetNanometers, tenToThePowerExponent)
    IN Mul(BestSignificand(targetSignificand), tenToThePowerExponent)

\* LengthInPixels with Math.floor in place of Math.round
LengthInPixels_floor(physicalNanometers, n) ==
    LET r == RoundDiv(Mul(Num(2, 0), physicalNanometers), n)
    IN IF IsNum(r) THEN Num((r.m * Pow10(r.e)) \div 2, 0) ELSE r

LengthInPixels(physicalNanometers, n) == RoundDiv(physicalNanometers, n)

\* the three outputs update() assigns for the inputs t, n
Quantize(t, n, exponent) ==
    LET physicalNanometers == PhysicalNanometers(t, n, exponent)
        unit == pickLengthUnit(physicalNanometers)
    IN [lengthInPixels |-> LengthInPixels(physicalNanometers, n),
        physicalUnit |-> unit.unit,
        physicalLength |-> Div(physicalNanometers, unit.lengthInNanometers)]

\* update(): the state change and the value returned (changed')
ScaleBarDimensions_update ==
    /\ seenInputs' = <<targetLengthInPixels, nanometersPerPixel>>
    /\ UNCHANGED <<targetLengthInPixels, nanometersPerPixel>>
    /\ IF InputsUnchanged
       THEN /\ changed' = FALSE
            /\ UNCHANGED <<lengthInPixels, physicalLength, physicalUnit,
                           prevNanometersPerPixel, prevTargetLengthInPixels>>
       ELSE /\ prevNanometersPerPixel' = nanometersPerPixel
            /\ prevTargetLengthInPixels' = targetLengthInPixels
            /\ \E exponent \in ExponentOutcomes(
                      TargetNanometers(targetLengthInPixels, nanometersPerPixel)) :
                 LET q == Quantize(targetLengthInPixels, nanometersPerPixel, exponent)
                 IN /\ lengthInPixels' = q.lengthInPixels
                    /\ physicalUnit' = q.physicalUnit
                    /\ physicalLength' = q.physicalLength
            /\ changed' = TRUE

-----------------------------------------------------------------------------
(* makeScaleBarTexture and ScaleBarTexture *)

textHeight == 15
barHeight == 8
barTopMargin == 5
padding == 2

\* the null texture reference; handles are 1, 2, ...
Null == 0

\* widths ctx.measureText may report for a label
TextWidths == {Num(30, 0), Num(70, 0)}

\* what makeScaleBarTexture draws, and the size it returns
Raster(lip, pl, pu, textWidth) ==
    LET innerWidth == Max(lip, textWidth)
        innerHeight == barHeight + barTopMargin + textHeight
    IN [text |-> <<pl, pu>>,
        bar |-> lip,
        width |-> Add(innerWidth, Num(2 * padding, 0)),
        height |-> Num(innerHeight + 2 * padding, 0)]

\* setTextureFromCanvas(gl, tex, canvas): the raster replaces the image of tex
SetTextureFromCanvas(images, tex, raster) ==
    [h \in DOMAIN images |-> IF h = tex THEN <<raster>> ELSE images[h]]

\* CacheHit ignoring what the quantizer returned
CacheHit_textureOnly(dimensionsChanged, tex) == tex # Null

\* the condition of the early return of ScaleBarTexture.update()
CacheHit(dimensionsChanged, tex) == ~dimensionsChanged /\ tex # Null

\* NeedsTexture allocating a handle at every render
NeedsTexture_always(tex) == TRUE

\* the condition under which update() calls gl.createTexture()
NeedsTexture(tex) == tex = Null

\* the ways a collaborator can fail during a render: getContext('2d') gives no
\* context (the first use of ctx throws), createTexture returns null, the upload throws
Faults == {"canvas", "createTexture", "upload"}

MaxHandles == 2

\* ScaleBarTexture.update(), the collaborators failing as fault says ("none": not)
ScaleBarTexture_update(fault) ==
    /\ ~wasDisposed
    /\ ScaleBarDimensions_update
    /\ lastCall' = "ScaleBarTexture.update"
    /\ UNCHANGED <<wasDisposed, glDeleted, pickVars>>
    /\ IF CacheHit(changed', texture)
       THEN /\ fault = "none"
            /\ UNCHANGED <<texture, width, height, glImage>>
            /\ glCalls' = <<>>
            /\ outcome' = "returned"
       ELSE /\ fault = "createTexture" => NeedsTexture(texture)
            /\ NeedsTexture(texture) => Len(glImage) < MaxHandles
            /\ \E textWidth \in TextWidths :
                 LET creates == NeedsTexture(texture)
                     created == creates /\ fault # "createTexture"
                     tex == IF ~creates THEN texture
                            ELSE IF created THEN Len(glImage) + 1 ELSE Null
                     images == IF created THEN Append(glImage, <<>>) ELSE glImage
                     raster == Raster(lengthInPixels', physicalLength',
                                      physicalUnit', textWidth)
                 IN /\ texture' = tex
                    /\ IF fault \in {"canvas", "upload"}
                       THEN /\ glImage' = images
                            /\ UNCHANGED <<width, height>>
                            /\ outcome' = "threw"
                       ELSE /\ glImage' = SetTextureFromCanvas(images, tex, raster)
                            /\ width' = raster.width
                            /\ height' = raster.height
                            /\ outcome' = "returned"
                    /\ glCalls' = (IF creates THEN <<"createTexture">> ELSE <<>>)
                                  \o (IF fault = "canvas" THEN <<>>
                                      ELSE <<"setTextureFromCanvas">>)

\* disposed() keeping the reference to the deleted texture
disposed_keepsReference ==
    /\ ~wasDisposed
    /\ glDeleted' = Append(glDeleted, texture)
    /\ wasDisposed' = TRUE
    /\ lastCall' = "ScaleBarTexture.disposed"
    /\ outcome' = "returned"
    /\ glCalls' = <<"deleteTexture">>
    /\ UNCHANGED <<dimVars, texture, glImage, width, height, changed, seenInputs,
                   pickVars>>

\* ScaleBarTexture.disposed(), called once when the last reference is dropped
disposed ==
    /\ ~wasDisposed
    /\ glDeleted' = Append(glDeleted, texture)
    /\ glImage' = [h \in DOMAIN glImage |-> IF h = texture THEN <<>> ELSE glImage[h]]
    /\ texture' = Null
    /\ wasDisposed' = TRUE
    /\ lastCall' = "ScaleBarTexture.disposed"
    /\ outcome' = "returned"
    /\ glCalls' = <<"deleteTexture">>
    /\ UNCHANGED <<dimVars, width, height, changed, seenInputs, pickVars>>

-----------------------------------------------------------------------------
(* The calls of the viewer.  RefCounted runs disposed() once, when the last       *)
(* reference is dropped, and the object is not used afterwards: every call is     *)
(* guarded by ~wasDisposed.                                                        *)

\* inputs the viewer writes: pixels, and nanometers per pixel
TargetPixels == {Num(-50, 0), Num(0, 0), Num(50, 0), Num(100, 0)}
PixelSizes == {Num(-37, 0), Num(0, 0), Num(10, 0), Num(37, 0)}

\* the viewer writes the two input fields
SetInputs(t, n) ==
    /\ ~wasDisposed
    /\ targetLengthInPixels' = t
    /\ nanometersPerPixel' = n
    /\ lastCall' = "set"
    /\ outcome' = "returned"
    /\ glCalls' = <<>>
    /\ UNCHANGED <<lengthInPixels, physicalLength, physicalUnit,
                   prevNanometersPerPixel, prevTargetLengthInPixels,
                   texVars, glVars, changed, seenInputs, pickVars>>

\* a direct call of dimensions.update()
CallDimensionsUpdate ==
    /\ ~wasDisposed
    /\ ScaleBarDimensions_update
    /\ lastCall' = "ScaleBarDimensions.update"
    /\ outcome' = "returned"
    /\ glCalls' = <<>>
    /\ UNCHANGED <<texVars, glVars, pickVars>>

CallTextureUpdate == ScaleBarTexture_update("none")

CallTextureUpdateFaulty == \E fault \in Faults : ScaleBarTexture_update(fault)

InitObject ==
    /\ lengthInPixels = Undefined
    /\ physicalLength = Undefined
    /\ physicalUnit = "undefined"
    /\ prevNanometersPerPixel = Zero
    /\ prevTargetLengthInPixels = Zero
    /\ texture = Null
    /\ width = Zero
    /\ height = Zero
    /\ wasDisposed = FALSE
    /\ glImage = <<>>
    /\ glDeleted = <<>>
    /\ lastCall = "new"
    /\ changed = FALSE
    /\ outcome = "returned"
    /\ glCalls = <<>>
    /\ seenInputs = <<Zero, Zero>>

Init ==
    /\ targetLengthInPixels = Zero
    /\ nanometersPerPixel = Zero
    /\ InitObject
    /\ pickInput = Zero
    /\ pickResult = "none"

Next ==
    \/ \E t \in TargetPixels, n \in PixelSizes : SetInputs(t, n)
    \/ CallDimensionsUpdate
    \/ CallTextureUpdate
    \/ disposed

Spec == Init /\ [][Next]_vars

\* the same, with collaborators that may fail
NextFaulty == Next \/ CallTextureUpdateFaulty

SpecFaulty == Init /\ [][NextFaulty]_vars

-----------------------------------------------------------------------------
(* pickLengthUnit and the quantizer applied to wider ranges of inputs *)

MaxPickMantissa == 101
PickExponents == -6 .. 13
PickInputs == {Num(m, e) : m \in 0 .. MaxPickMantissa, e \in PickExponents}

CallPickLengthUnit ==
    /\ pickResult = "none"
    /\ pickResult' = pickLengthUnit(pickInput).unit
    /\ UNCHANGED <<pickInput, dimVars, texVars, glVars, obsVars>>

InitUnit ==
    /\ targetLengthInPixels = Zero
    /\ nanometersPerPixel = Zero
    /\ InitObject
    /\ pickInput \in PickInputs
    /\ pickResult = "none"

SpecUnit == InitUnit /\ [][CallPickLengthUnit]_vars

MaxTargetPixels == 50
MaxPixelMantissa == 40
PixelExponents == {-5, -3, 0, 2, 6, 10}

InitQuant ==
    /\ targetLengthInPixels \in {Num(t, 0) : t \in 1 .. MaxTargetPixels}
    /\ nanometersPerPixel \in
           {Num(m, e) : m \in 1 .. MaxPixelMantissa, e \in PixelExponents}
    /\ InitObject
    /\ pickInput = Zero
    /\ pickResult = "none"

SpecQuant == InitQuant /\ [][CallDimensionsUpdate]_vars

-----------------------------------------------------------------------------
(* Properties *)

UpdateCalls == {"ScaleBarDimensions.update", "ScaleBarTexture.update"}
Positive(x) == IsNum(x) /\ x.m > 0
IsInteger(x) == IsNum(x) /\ x.e >= 0
Outputs == <<lengthInPixels, physicalLength, physicalUnit>>
Calls(log, name) == \E i \in DOMAIN log : log[i] = name
Count(log, x) == Cardinality({i \in DOMAIN log : log[i] = x})
UnitNamed(u) == CHOOSE r \in {ALLOWED_UNITS[i] : i \in DOMAIN ALLOWED_UNITS} : r.unit = u

\* C1: a call of ScaleBarDimensions.update() (direct, or made by ScaleBarTexture.update())
\* returns false exactly when both inputs are identical to those the previous call saw
\* (0 and 0 before the first call), and then leaves the three outputs and the cached
\* inputs unchanged; otherwise it returns true.  The inputs are finite numbers.
C1_ChangeDetection ==
    [][lastCall' \in UpdateCalls =>
         /\ (changed' = FALSE) <=>
                (<<targetLengthInPixels, nanometersPerPixel>> = seenInputs)
         /\ changed' = FALSE =>
                UNCHANGED <<Outputs, prevNanometersPerPixel, prevTargetLengthInPixels>>
         /\ <<prevTargetLengthInPixels', prevNanometersPerPixel'>> = seenInputs']_vars

\* a second update() with the same inputs, not the initial ones, has returned false
C1_Witness ==
    /\ lastCall = "ScaleBarDimensions.update"
    /\ changed = FALSE
    /\ seenInputs # <<Zero, Zero>>
    /\ lengthInPixels # Undefined

\* C2: for every length >= 0, pickLengthUnit returns the entry of ALLOWED_UNITS of the
\* largest length that is <= the input, or pm when no entry qualifies; 1000 nm gives um.
C2_LargestQualifyingUnit ==
    pickResult # "none" =>
        LET qualifying == {i \in DOMAIN ALLOWED_UNITS :
                              Geq(pickInput, ALLOWED_UNITS[i].lengthInNanometers)}
        IN /\ qualifying = {} => pickResult = "pm"
           /\ qualifying # {} =>
                \E i \in qualifying :
                    /\ pickResult = ALLOWED_UNITS[i].unit
                    /\ \A j \in qualifying :
                          Geq(ALLOWED_UNITS[i].lengthInNanometers,
                              ALLOWED_UNITS[j].lengthInNanometers)
           /\ pickInput = Num(1000, 0) => pickResult = "um"

\* pickLengthUnit was applied at the boundary of exactly 1000 nm
C2_Witness == pickInput = Num(1000, 0) /\ pickResult = "um"

\* the significand in [1, 10) of a positive number
SignificandOf(x) == Num(x.m, x.e - Magnitude(x))
Candidates == {Num(1, 0)} \cup {allowedSignificands[i] : i \in DOMAIN allowedSignificands}
Distance(a, b) == Abs(Sub(a, b))
\* the result of a full minimum-by-distance scan in ascending order: the least of the
\* candidates at minimal distance
FullScanMinimum(targetSignificand) ==
    CHOOSE b \in Candidates :
        /\ \A c \in Candidates :
              ~Lt(Distance(c, targetSignificand), Distance(b, targetSignificand))
        /\ \A c \in Candidates :
              Distance(c, targetSignificand) = Distance(b, targetSignificand)
                  => ~Lt(c, b)
\* the quantized length in nanometers of positive inputs
QuantizedNanometers(t, n) ==
    LET targetNanometers == Mul(t, n)
    IN Mul(FullScanMinimum(SignificandOf(targetNanometers)),
           Num(1, Magnitude(targetNanometers)))
\* the physical length update() stored, in nanometers
StoredNanometers == Mul(physicalLength, UnitNamed(physicalUnit).lengthInNanometers)

\* C3: after update() on positive inputs the physical length in nanometers is
\* bestSignificand * 10^floor(log10(target * nanometersPerPixel)), bestSignificand being
\* the member of {1} and the allowed significands a full minimum-by-distance scan finds.
C3_NearestSignificand ==
    (Positive(prevTargetLengthInPixels) /\ Positive(prevNanometersPerPixel)) =>
        StoredNanometers =
            QuantizedNanometers(prevTargetLengthInPixels, prevNanometersPerPixel)

\* update() has run for 50 px at 37 nm per pixel: 2 um drawn as 54 px
C3_Witness ==
    /\ prevTargetLengthInPixels = Num(50, 0)
    /\ prevNanometersPerPixel = Num(37, 0)
    /\ physicalLength = Num(2, 0)
    /\ physicalUnit = "um"
    /\ lengthInPixels = Num(54, 0)

\* C4: update() with a non-positive input fails with InvalidInput before the logarithm
\* step: it does not return, and no output holds NaN.
C4_InvalidInputRejected ==
    (/\ lastCall \in UpdateCalls
     /\ changed
     /\ ~(Positive(prevTargetLengthInPixels) /\ Positive(prevNanometersPerPixel)))
        => /\ outcome = "threw"
           /\ lengthInPixels.k # "NaN"
           /\ physicalLength.k # "NaN"

\* C5: once update() has returned true on positive inputs, lengthInPixels is an
\* integer, physicalLength in the unit named physicalUnit is the quantized length, and
\* lengthInPixels * nanometersPerPixel is within nanometersPerPixel / 2 of it.
C5_RoundTrip ==
    (Positive(prevTargetLengthInPixels) /\ Positive(prevNanometersPerPixel)) =>
        LET quantized == QuantizedNanometers(prevTargetLengthInPixels,
                                             prevNanometersPerPixel)
            drawn == Mul(lengthInPixels, prevNanometersPerPixel)
        IN /\ IsInteger(lengthInPixels)
           /\ physicalUnit = pickLengthUnit(quantized).unit
           /\ StoredNanometers = quantized
           /\ ~Lt(prevNanometersPerPixel,
                  Mul(Num(2, 0), Distance(drawn, quantized)))

\* update() has returned true on positive inputs whose bar length had to be rounded
C5_Witness ==
    /\ lastCall = "ScaleBarDimensions.update"
    /\ changed
    /\ Positive(prevTargetLengthInPixels) /\ Positive(prevNanometersPerPixel)
    /\ Mul(lengthInPixels, prevNanometersPerPixel) # StoredNanometers

\* C6: ScaleBarTexture.update() rasterizes and uploads exactly when the quantizer's
\* update() returned true or there is no texture yet; otherwise it makes no
\* collaborator call and leaves texture, width, height and the image unchanged.
C6_RenderExactlyWhenNeeded ==
    [][lastCall' = "ScaleBarTexture.update" =>
         LET rendered == Calls(glCalls', "setTextureFromCanvas")
         IN /\ rendered <=> (changed' \/ texture = Null)
            /\ ~rendered =>
                  /\ glCalls' = <<>>
                  /\ UNCHANGED <<texture, width, height, glImage>>
            /\ rendered =>
                  \E textWidth \in TextWidths :
                      LET raster == Raster(lengthInPixels', physicalLength',
                                           physicalUnit', textWidth)
                      IN /\ glImage'[texture'] = <<raster>>
                         /\ width' = raster.width
                         /\ height' = raster.height]_vars

\* ScaleBarTexture.update() has returned early, the texture kept as it was
C6_Witness ==
    /\ lastCall = "ScaleBarTexture.update"
    /\ ~changed
    /\ texture # Null
    /\ glCalls = <<>>
    /\ glImage[texture] # <<>>

\* C7: there is no handle on construction, the first ScaleBarTexture.update() creates
\* it, and until disposal no other handle is ever created: each later render uploads
\* into the same handle.
C7_HandleCreatedOnce ==
    /\ texture = Null /\ glImage = <<>>
    /\ [](Len(glImage) <= 1)
    /\ [][/\ lastCall' = "ScaleBarTexture.update" =>
               /\ texture' # Null
               /\ Calls(glCalls', "createTexture") <=> texture = Null
               /\ texture # Null => texture' = texture
          /\ lastCall' \in {"set", "ScaleBarDimensions.update"} =>
               UNCHANGED <<texture, glImage>>]_vars

\* a later render has uploaded into the handle the first one created
C7_Witness ==
    /\ lastCall = "ScaleBarTexture.update"
    /\ changed
    /\ glCalls = <<"setTextureFromCanvas">>
    /\ texture = 1

\* C8: nothing is released before disposed(); after it the texture reference is null,
\* every handle the renderer created has been released exactly once, and no handle it
\* did not create has been released (with no texture yet, deleteTexture gets null).
C8_ReleasedExactlyOnce ==
    /\ ~wasDisposed => glDeleted = <<>>
    /\ wasDisposed =>
          /\ texture = Null
          /\ \A h \in DOMAIN glImage : Count(glDeleted, h) = 1
          /\ \A i \in DOMAIN glDeleted : glDeleted[i] \in DOMAIN glImage \cup {Null}

\* the renderer was discarded after it had created its handle
C8_Witness == wasDisposed /\ glDeleted = <<1>>

\* C9: when the canvas, the texture allocation or the upload fails during
\* ScaleBarTexture.update(), the update ends as failed, an existing texture keeps its
\* handle, image, width and height, and the next update() makes the render that failed.
C9_FailedRenderIsRetried ==
    [][/\ (/\ lastCall' = "ScaleBarTexture.update"
           /\ \/ outcome' = "threw"
              \/ Calls(glCalls', "createTexture") /\ texture' = Null) =>
             /\ outcome' = "threw"
             /\ texture # Null => UNCHANGED <<texture, glImage, width, height>>
       /\ (/\ lastCall = "ScaleBarTexture.update" /\ outcome = "threw"
           /\ lastCall' = "ScaleBarTexture.update" /\ outcome' = "returned") =>
             Calls(glCalls', "setTextureFromCanvas")]_vars

\* C10: whenever ScaleBarTexture.update() has just returned (stated for positive
\* inputs), a texture exists and its image, width and height are those rasterized from
\* the outputs of the current targetLengthInPixels and nanometersPerPixel.
C10_TextureFresh ==
    (/\ lastCall = "ScaleBarTexture.update"
     /\ Positive(targetLengthInPixels) /\ Positive(nanometersPerPixel)) =>
        /\ texture # Null
        /\ \E textWidth \in TextWidths :
           \E exponent \in ExponentOutcomes(
                   TargetNanometers(targetLengthInPixels, nanometersPerPixel)) :
               LET q == Quantize(targetLengthInPixels, nanometersPerPixel, exponent)
                   raster == Raster(q.lengthInPixels, q.physicalLength,
                                    q.physicalUnit, textWidth)
               IN /\ glImage[texture] = <<raster>>
                  /\ width = raster.width
                  /\ height = raster.height

====
